---- MODULE Spec2Model ----
(***************************************************************************)
(* Art Extractor (src/src/artExtractor.js): the stored from/to corners,    *)
(* the coordinate-range arithmetic, the delegation of compositing to       *)
(* templateManager, and the polled coordinate picker.                      *)
(***************************************************************************)
EXTENDS Integers, Sequences, FiniteSets, TLC

VARIABLES
    argFrom,              \* extractArt / validate / calculate: parameter `from`
    argTo,                \* parameter `to`
    dimsResult,           \* what calculateDimensions(argFrom, argTo) returned
    validResult,          \* what validateCoordinateRange(argFrom, argTo) returned
    extraction,           \* progress of one extractArt(argFrom, argTo, ...) call
    extractorCoordinates, \* module state { from, to }
    lastCall,             \* the last setter/clear call and its argument
    coordsTilePixel,      \* apiManager.coordsTilePixel, owned by the collaborator
    detection,            \* closure state of one startCoordinateDetection call
    callbackArgs,         \* arguments the callback has been invoked with, in order
    cancelled,            \* the returned cleanup was called, or Escape was handled
    clicked               \* coordsTilePixel holds a click made during the detection

calcVars   == <<argFrom, argTo, dimsResult, validResult, extraction>>
storeVars  == <<extractorCoordinates, lastCall>>
pickerVars == <<coordsTilePixel, detection, callbackArgs, cancelled, clicked>>
vars       == <<argFrom, argTo, dimsResult, validResult, extraction,
                extractorCoordinates, lastCall,
                coordsTilePixel, detection, callbackArgs, cancelled, clicked>>

----------------------------------------------------------------------------
(* Program constants *)

TileSize == 1000
MaxSide == 10000
CoordsLength == 4

(* Bounds of the model *)

MaxTile == 10
MaxStoreTile == 1

----------------------------------------------------------------------------
(* JavaScript values.  A value is a record with a type tag; an array or a  *)
(* string carries its elements, so that .length is Len(elems).             *)

Null == [type |-> "null", elems |-> <<>>]
Arr(s) == [type |-> "array", elems |-> s]
Str(s) == [type |-> "string", elems |-> s]

IsArray(v) == v.type = "array"
Length(v) == Len(v.elems)
Falsy(v) == v.type = "null" \/ (v.type = "string" /\ v.elems = <<>>)
Spread(v) == Arr(v.elems)

TileVals == {-1, 0} \cup (10..MaxTile)
LocalVals == {0, 1, TileSize - 1}
CoordVals == {Arr(<<tx, ty, px, py>>) : tx \in TileVals, ty \in TileVals,
                                        px \in LocalVals, py \in LocalVals}
CoordOrNull == CoordVals \cup {Null}

----------------------------------------------------------------------------
(* Coordinate-range arithmetic *)

GlobalX(c) == c.elems[1] * TileSize + c.elems[3]

(* Mutant: the Y axis takes the local X offset *)
GlobalYFromLocalX(c) == c.elems[2] * TileSize + c.elems[3]

GlobalY(c) == c.elems[2] * TileSize + c.elems[4]

Max(a, b) == IF a >= b THEN a ELSE b

ErrNull == "null"
ErrUnset == "Both coordinates must be set"
ErrInverted == "\"From\" coordinates must be top-left of \"To\" coordinates"
ErrDimensions == "Invalid rectangle dimensions"
ErrTooLarge == "Rectangle too large (max 10000x10000 pixels)"

(* Mutant: the size cap is compared with >= instead of > *)
validateCoordinateRangeCapOffByOne(from, to) ==
    IF Falsy(from) \/ Falsy(to)
    THEN [valid |-> FALSE, error |-> ErrUnset]
    ELSE LET width == GlobalX(to) - GlobalX(from) + 1
             height == GlobalY(to) - GlobalY(from) + 1
         IN  IF width <= 0 \/ height <= 0
             THEN [valid |-> FALSE, error |-> ErrInverted]
             ELSE IF width >= MaxSide \/ height >= MaxSide
             THEN [valid |-> FALSE, error |-> ErrTooLarge]
             ELSE [valid |-> TRUE, error |-> ErrNull]

validateCoordinateRange(from, to) ==
    IF Falsy(from) \/ Falsy(to)
    THEN [valid |-> FALSE, error |-> ErrUnset]
    ELSE LET fromX == GlobalX(from)
             fromY == GlobalY(from)
             toX == GlobalX(to)
             toY == GlobalY(to)
             width == toX - fromX + 1
             height == toY - fromY + 1
         IN  IF fromX > toX \/ fromY > toY
             THEN [valid |-> FALSE, error |-> ErrInverted]
             ELSE IF width <= 0 \/ height <= 0
             THEN [valid |-> FALSE, error |-> ErrDimensions]
             ELSE IF width > MaxSide \/ height > MaxSide
             THEN [valid |-> FALSE, error |-> ErrTooLarge]
             ELSE [valid |-> TRUE, error |-> ErrNull]

(* Mutant: the sides are exclusive (the + 1 is missing) *)
calculateDimensionsExclusive(from, to) ==
    IF Falsy(from) \/ Falsy(to)
    THEN [width |-> 0, height |-> 0, pixels |-> 0]
    ELSE LET width == Max(0, GlobalX(to) - GlobalX(from))
             height == Max(0, GlobalY(to) - GlobalY(from))
         IN  [width |-> width, height |-> height, pixels |-> width * height]

calculateDimensions(from, to) ==
    IF Falsy(from) \/ Falsy(to)
    THEN [width |-> 0, height |-> 0, pixels |-> 0]
    ELSE LET fromX == GlobalX(from)
             fromY == GlobalY(from)
             toX == GlobalX(to)
             toY == GlobalY(to)
             width == Max(0, toX - fromX + 1)
             height == Max(0, toY - fromY + 1)
         IN  [width |-> width, height |-> height, pixels |-> width * height]

----------------------------------------------------------------------------
(* Calls of the pure functions and of extractArt on one pair of arguments *)

NotCalled == [called |-> FALSE]
NoRequest == [made |-> FALSE, templateCoords |-> Null, sizePx |-> <<0, 0>>]
IdleExtraction == [phase |-> "idle", request |-> NoRequest]
TemplateManagers == {"present", "missing"}

NoCall == [op |-> "none", arg |-> Null]
NoDetection ==
    [started |-> FALSE, initialCoords |-> Null, initialCoordsString |-> <<>>,
     callback |-> "notFunction", isActive |-> FALSE, hasDetected |-> FALSE,
     checkInterval |-> FALSE, indicator |-> FALSE, keydownListener |-> FALSE]

(* Before any call: the arguments are drawn, nothing has been called *)
InitCalc ==
    /\ argFrom \in CoordOrNull
    /\ argTo \in CoordOrNull
    /\ dimsResult = NotCalled
    /\ validResult = NotCalled
    /\ extraction = IdleExtraction
    /\ extractorCoordinates = [from |-> Null, to |-> Null]
    /\ lastCall = NoCall
    /\ coordsTilePixel = Null
    /\ detection = NoDetection
    /\ callbackArgs = <<>>
    /\ cancelled = FALSE
    /\ clicked = FALSE

CallCalculateDimensions ==
    /\ ~dimsResult.called
    /\ dimsResult' = [called |-> TRUE, value |-> calculateDimensions(argFrom, argTo)]
    /\ UNCHANGED <<argFrom, argTo, validResult, extraction>>
    /\ UNCHANGED storeVars /\ UNCHANGED pickerVars

CallValidateCoordinateRange ==
    /\ ~validResult.called
    /\ validResult' = [called |-> TRUE, value |-> validateCoordinateRange(argFrom, argTo)]
    /\ UNCHANGED <<argFrom, argTo, dimsResult, extraction>>
    /\ UNCHANGED storeVars /\ UNCHANGED pickerVars

(* extractArt up to its await: the dimensions are computed and the        *)
(* compositing request is made; a missing templateManager throws inside   *)
(* the try block and the error is rethrown.                               *)
extractArtRequest(from, to, templateManager) ==
    LET dims == calculateDimensions(from, to)
    IN  IF templateManager = "missing"
        THEN [phase |-> "threw", request |-> NoRequest]
        ELSE [phase |-> "awaiting",
              request |-> [made |-> TRUE, templateCoords |-> from,
                           sizePx |-> <<dims.width, dims.height>>]]

ExtractArtCall ==
    /\ extraction.phase = "idle"
    /\ \E templateManager \in TemplateManagers :
          extraction' = extractArtRequest(argFrom, argTo, templateManager)
    /\ UNCHANGED <<argFrom, argTo, dimsResult, validResult>>
    /\ UNCHANGED storeVars /\ UNCHANGED pickerVars

(* The collaborator settles the promise: extractArt returns the blob, or  *)
(* logs and rethrows the rejection.                                       *)
ExtractArtSettle ==
    /\ extraction.phase = "awaiting"
    /\ \E outcome \in {"returned", "threw"} :
          extraction' = [extraction EXCEPT !.phase = outcome]
    /\ UNCHANGED <<argFrom, argTo, dimsResult, validResult>>
    /\ UNCHANGED storeVars /\ UNCHANGED pickerVars

NextCalc ==
    \/ CallCalculateDimensions
    \/ CallValidateCoordinateRange
    \/ ExtractArtCall
    \/ ExtractArtSettle

SpecCalc == InitCalc /\ [][NextCalc]_vars

----------------------------------------------------------------------------
(* Reference arithmetic of the claims, written without the model's        *)
(* operators                                                              *)

RefWidth == (argTo.elems[1] * 1000 + argTo.elems[3])
                - (argFrom.elems[1] * 1000 + argFrom.elems[3]) + 1
RefHeight == (argTo.elems[2] * 1000 + argTo.elems[4])
                - (argFrom.elems[2] * 1000 + argFrom.elems[4]) + 1
BothSet == argFrom # Null /\ argTo # Null

(* C1: calculateDimensions(from, to) returns width = max(0, toGlobalX -   *)
(* fromGlobalX + 1), height = max(0, toGlobalY - fromGlobalY + 1) and     *)
(* pixels = width * height, all zero when from or to is null; when        *)
(* from <= to on both axes it is the inclusive size, and no field is      *)
(* ever negative.                                                         *)
C1_DimensionsMatchReference ==
    dimsResult.called =>
        LET d == dimsResult.value
        IN  /\ ~BothSet => d = [width |-> 0, height |-> 0, pixels |-> 0]
            /\ BothSet =>
                 /\ d.width = (IF RefWidth > 0 THEN RefWidth ELSE 0)
                 /\ d.height = (IF RefHeight > 0 THEN RefHeight ELSE 0)
                 /\ d.pixels = d.width * d.height
                 /\ (RefWidth >= 1 /\ RefHeight >= 1) =>
                       (d.width = RefWidth /\ d.height = RefHeight)
            /\ d.width >= 0 /\ d.height >= 0 /\ d.pixels >= 0

C1_Witness ==
    /\ dimsResult.called
    /\ BothSet
    /\ RefWidth = 10001
    /\ RefHeight < 0
    /\ dimsResult.value = [width |-> 10001, height |-> 0, pixels |-> 0]

(* C2: validateCoordinateRange(from, to) returns valid = true and error = *)
(* null exactly when both are set, from <= to on both axes and both       *)
(* inclusive sides are at most 10000; otherwise valid = false and error   *)
(* is not null.                                                           *)
RefAccepted ==
    /\ BothSet
    /\ RefWidth >= 1 /\ RefHeight >= 1
    /\ RefWidth <= 10000 /\ RefHeight <= 10000

C2_ValidIffInRange ==
    validResult.called =>
        LET v == validResult.value
        IN  /\ RefAccepted => (v.valid = TRUE /\ v.error = ErrNull)
            /\ ~RefAccepted => (v.valid = FALSE /\ v.error # ErrNull)

C2_Witness ==
    /\ validResult.called
    /\ BothSet
    /\ RefWidth = 10000
    /\ RefHeight = 1
    /\ validResult.value.valid

(* C3: extractArt makes a compositing request (calls                      *)
(* templateManager.buildTemplateAreaScreenshot) only for a region that    *)
(* validateCoordinateRange accepts.                                       *)
C3_RequestOnlyForAcceptedRegion ==
    extraction.request.made => validateCoordinateRange(argFrom, argTo).valid

----------------------------------------------------------------------------
(* The stored corners: getExtractorCoordinates, setFromCoordinates,       *)
(* setToCoordinates, clearExtractorCoordinates                            *)

StoreTileVals == 0..MaxStoreTile
StoreLocalVals == {0, TileSize - 1}
StoreCoordVals == {Arr(<<tx, ty, px, py>>) : tx \in StoreTileVals, ty \in StoreTileVals,
                                             px \in StoreLocalVals, py \in StoreLocalVals}
(* What a caller may pass to a setter: a coordinate, null, the string     *)
(* "abcd" (length 4, not an array) and arrays of length 0, 3 and 5.       *)
SetterInputs ==
    StoreCoordVals \cup {Null, Str(<<97, 98, 99, 100>>), Arr(<<>>),
                         Arr(<<0, 0, 0>>), Arr(<<0, 0, 0, 0, 0>>)}

getExtractorCoordinates ==
    [from |-> extractorCoordinates.from, to |-> extractorCoordinates.to]

(* Mutant: the length of the array is not checked *)
setFromAnyLength(state, coords) ==
    IF ~IsArray(coords)
    THEN state
    ELSE [state EXCEPT !.from = Spread(coords)]

setFrom(state, coords) ==
    IF ~IsArray(coords) \/ Length(coords) # CoordsLength
    THEN state
    ELSE [state EXCEPT !.from = Spread(coords)]

setTo(state, coords) ==
    IF ~IsArray(coords) \/ Length(coords) # CoordsLength
    THEN state
    ELSE [state EXCEPT !.to = Spread(coords)]

clearCoordinates(state) == [from |-> Null, to |-> Null]

setFromCoordinates(coords) ==
    /\ extractorCoordinates' = setFrom(extractorCoordinates, coords)
    /\ lastCall' = [op |-> "setFromCoordinates", arg |-> coords]
    /\ UNCHANGED calcVars /\ UNCHANGED pickerVars

setToCoordinates(coords) ==
    /\ extractorCoordinates' = setTo(extractorCoordinates, coords)
    /\ lastCall' = [op |-> "setToCoordinates", arg |-> coords]
    /\ UNCHANGED calcVars /\ UNCHANGED pickerVars

clearExtractorCoordinates ==
    /\ extractorCoordinates' = clearCoordinates(extractorCoordinates)
    /\ lastCall' = [op |-> "clearExtractorCoordinates", arg |-> Null]
    /\ UNCHANGED calcVars /\ UNCHANGED pickerVars

(* Module load: let extractorCoordinates = { from: null, to: null } *)
InitStore ==
    /\ extractorCoordinates = [from |-> Null, to |-> Null]
    /\ lastCall = NoCall
    /\ argFrom = Null
    /\ argTo = Null
    /\ dimsResult = NotCalled
    /\ validResult = NotCalled
    /\ extraction = IdleExtraction
    /\ coordsTilePixel = Null
    /\ detection = NoDetection
    /\ callbackArgs = <<>>
    /\ cancelled = FALSE
    /\ clicked = FALSE

NextStore ==
    \/ \E coords \in SetterInputs : setFromCoordinates(coords)
    \/ \E coords \in SetterInputs : setToCoordinates(coords)
    \/ clearExtractorCoordinates

SpecStore == InitStore /\ [][NextStore]_vars

StoredBothSet ==
    extractorCoordinates.from # Null /\ extractorCoordinates.to # Null

StoredOrdered ==
    LET f == extractorCoordinates.from.elems
        t == extractorCoordinates.to.elems
    IN  /\ f[1] * 1000 + f[3] <= t[1] * 1000 + t[3]
        /\ f[2] * 1000 + f[4] <= t[2] * 1000 + t[4]

(* C4 as claimed: after any sequence of setFromCoordinates,               *)
(* setToCoordinates and clearExtractorCoordinates calls, a stored pair    *)
(* with both corners set satisfies from <= to on both axes.               *)
C4_StoredRegionOrdered == StoredBothSet => StoredOrdered

(* C4 as amended: a stored pair with both corners set that                *)
(* validateCoordinateRange accepts satisfies from <= to on both axes.     *)
C4_AcceptedStoredRegionOrdered ==
    (StoredBothSet /\ validateCoordinateRange(extractorCoordinates.from,
                                              extractorCoordinates.to).valid)
        => StoredOrdered

C4_Witness ==
    /\ lastCall.op = "setToCoordinates"
    /\ StoredBothSet
    /\ extractorCoordinates.from # extractorCoordinates.to
    /\ validateCoordinateRange(extractorCoordinates.from,
                               extractorCoordinates.to).valid

(* C8: a setter given a non-array or an array of length other than 4      *)
(* leaves from and to unchanged; given a 4-element array,                 *)
(* setFromCoordinates changes only from and setToCoordinates only to,     *)
(* and getExtractorCoordinates then returns the values given in that      *)
(* slot; clearExtractorCoordinates sets both to null.                     *)
RefFourArray(c) == c.type = "array" /\ Len(c.elems) = 4

C8_SetterFrame ==
    [][LET c == lastCall'.arg
           old == extractorCoordinates
           new == getExtractorCoordinates'
       IN  /\ lastCall'.op = "setFromCoordinates" =>
                 IF RefFourArray(c)
                 THEN new.from.type = "array" /\ new.from.elems = c.elems
                      /\ new.to = old.to
                 ELSE new.from = old.from /\ new.to = old.to
           /\ lastCall'.op = "setToCoordinates" =>
                 IF RefFourArray(c)
                 THEN new.to.type = "array" /\ new.to.elems = c.elems
                      /\ new.from = old.from
                 ELSE new.from = old.from /\ new.to = old.to
           /\ lastCall'.op = "clearExtractorCoordinates" =>
                 new.from = Null /\ new.to = Null]_vars

C8_Witness ==
    /\ lastCall.op = "setFromCoordinates"
    /\ lastCall.arg = Str(<<97, 98, 99, 100>>)
    /\ extractorCoordinates.from = Arr(<<1, 0, 999, 0>>)
    /\ extractorCoordinates.to = Arr(<<0, 1, 0, 999>>)

----------------------------------------------------------------------------
(* The coordinate picker: startCoordinateDetection                        *)

(* An element of apiManager.coordsTilePixel is a number or a string of    *)
(* decimal digits; n is its numeric value.                                *)
Num(n) == [kind |-> "number", n |-> n]
DigitString(n) == [kind |-> "string", n |-> n]

Digit(d) == <<"0", "1", "2", "3", "4", "5", "6", "7", "8", "9">>[d + 1]

RECURSIVE numberToString(_)
numberToString(n) == IF n < 10 THEN <<Digit(n)>>
               ELSE numberToString(n \div 10) \o <<Digit(n % 10)>>

(* Array.prototype.join(','): the elements' string forms, comma-separated *)
RECURSIVE JoinFrom(_, _)
JoinFrom(elems, i) ==
    IF i > Len(elems) THEN <<>>
    ELSE (IF i > 1 THEN <<",">> ELSE <<>>) \o numberToString(elems[i].n)
             \o JoinFrom(elems, i + 1)

(* Mutant: the elements are joined without a separator *)
RECURSIVE ConcatFrom(_, _)
ConcatFrom(elems, i) ==
    IF i > Len(elems) THEN <<>>
    ELSE numberToString(elems[i].n) \o ConcatFrom(elems, i + 1)

joinNoSeparator(array) == ConcatFrom(array.elems, 1)

join(array) == JoinFrom(array.elems, 1)

PickA == Arr(<<Num(1), Num(23), Num(4), Num(5)>>)
PickB == Arr(<<Num(12), Num(3), Num(4), Num(5)>>)
PickAStrings == Arr(<<DigitString(1), DigitString(23), DigitString(4), DigitString(5)>>)
PickFour == {PickA, PickB, PickAStrings}
(* What the collaborator may hold in coordsTilePixel: nothing, a click,   *)
(* or an array that is not a 4-element coordinate.                        *)
PickValues ==
    PickFour \cup {Null, Arr(<<Num(1), Num(23)>>),
                   Arr(<<Num(1), Num(23), Num(4), Num(5), Num(6)>>)}

Callbacks == {"returns", "throws", "notFunction"}
Keys == {"Escape", "Enter"}

(* Before startCoordinateDetection: the collaborator holds any value *)
InitPicker ==
    /\ coordsTilePixel \in PickValues
    /\ detection = NoDetection
    /\ callbackArgs = <<>>
    /\ cancelled = FALSE
    /\ clicked = FALSE
    /\ argFrom = Null
    /\ argTo = Null
    /\ dimsResult = NotCalled
    /\ validResult = NotCalled
    /\ extraction = IdleExtraction
    /\ extractorCoordinates = [from |-> Null, to |-> Null]
    /\ lastCall = NoCall

(* The closure after the synchronous body of startCoordinateDetection *)
startDetection(coords, callback) ==
    LET initialCoords == IF Falsy(coords) THEN Null ELSE Spread(coords)
    IN  [started |-> TRUE,
         initialCoords |-> initialCoords,
         initialCoordsString |-> IF Falsy(initialCoords) THEN <<>>
                                 ELSE join(initialCoords),
         callback |-> callback,
         isActive |-> TRUE,
         hasDetected |-> FALSE,
         checkInterval |-> TRUE,
         indicator |-> TRUE,
         keydownListener |-> TRUE]

(* Mutant: the keydown listener is not removed *)
cleanupKeepsListener(d) ==
    [d EXCEPT !.isActive = FALSE, !.checkInterval = FALSE, !.indicator = FALSE]

cleanup(d) ==
    [d EXCEPT !.isActive = FALSE, !.checkInterval = FALSE,
              !.indicator = FALSE, !.keydownListener = FALSE]

startCoordinateDetection ==
    /\ ~detection.started
    /\ \E callback \in Callbacks :
          detection' = startDetection(coordsTilePixel, callback)
    /\ clicked' = FALSE
    /\ UNCHANGED <<coordsTilePixel, callbackArgs, cancelled>>
    /\ UNCHANGED calcVars /\ UNCHANGED storeVars

(* The external collaborator stores a value (a click stores 4 elements) *)
WriteCoords ==
    /\ \E v \in PickValues :
          /\ coordsTilePixel' = v
          /\ clicked' = (detection.started /\ IsArray(v) /\ Length(v) = 4)
    /\ UNCHANGED <<detection, callbackArgs, cancelled>>
    /\ UNCHANGED calcVars /\ UNCHANGED storeVars

(* One firing of the setInterval handler *)
PollTick ==
    /\ detection.checkInterval
    /\ IF ~detection.isActive \/ detection.hasDetected
       THEN /\ detection' = [detection EXCEPT !.checkInterval = FALSE]
            /\ UNCHANGED callbackArgs
       ELSE IF Falsy(coordsTilePixel) \/ Length(coordsTilePixel) # CoordsLength
       THEN UNCHANGED <<detection, callbackArgs>>
       ELSE IF join(coordsTilePixel) # detection.initialCoordsString
       THEN LET detected == [detection EXCEPT !.hasDetected = TRUE]
            IN  /\ callbackArgs' =
                      IF detection.callback = "notFunction" THEN callbackArgs
                      ELSE Append(callbackArgs, Spread(coordsTilePixel))
                /\ detection' =
                      IF detection.callback = "throws" THEN detected
                      ELSE cleanup(detected)
       ELSE UNCHANGED <<detection, callbackArgs>>
    /\ UNCHANGED <<coordsTilePixel, cancelled, clicked>>
    /\ UNCHANGED calcVars /\ UNCHANGED storeVars

(* A keydown event reaches handleEscKey while it is registered *)
handleEscKey ==
    /\ detection.keydownListener
    /\ \E key \in Keys :
          /\ detection' = IF key = "Escape" THEN cleanup(detection) ELSE detection
          /\ cancelled' = (cancelled \/ key = "Escape")
    /\ UNCHANGED <<coordsTilePixel, callbackArgs, clicked>>
    /\ UNCHANGED calcVars /\ UNCHANGED storeVars

(* The caller invokes the cleanup function startCoordinateDetection gave *)
CallCleanup ==
    /\ detection.started
    /\ detection' = cleanup(detection)
    /\ cancelled' = TRUE
    /\ UNCHANGED <<coordsTilePixel, callbackArgs, clicked>>
    /\ UNCHANGED calcVars /\ UNCHANGED storeVars

NextPicker ==
    \/ startCoordinateDetection
    \/ WriteCoords
    \/ PollTick
    \/ handleEscKey
    \/ CallCleanup

SpecPicker == InitPicker /\ [][NextPicker]_vars

(* setInterval keeps firing the handler every 100 ms while registered *)
FairPicker == SpecPicker /\ WF_vars(PollTick)

----------------------------------------------------------------------------
(* Claims about the picker *)

Pending ==
    detection.started /\ detection.isActive /\ ~detection.hasDetected

(* The comma-joined forms of a 4-element value v and of the value held at *)
(* the start differ: another length, or an element with another string    *)
(* form.                                                                  *)
RefJoinedDiffers(v, initial) ==
    \/ initial = Null
    \/ Len(initial.elems) # Len(v.elems)
    \/ \E i \in 1..Len(v.elems) : v.elems[i].n # initial.elems[i].n

ResolvedWith(v) ==
    /\ detection.hasDetected
    /\ detection.callback # "notFunction" => callbackArgs = <<Arr(v.elems)>>

(* C5 as claimed: while a detection is pending and not cancelled, once    *)
(* the collaborator has written a clicked 4-element value, the pick is    *)
(* eventually resolved with that value under fair polling (unless it is   *)
(* cancelled or the value replaced first).                                *)
C5_ClickEventuallyResolves ==
    \A v \in PickFour :
        (Pending /\ clicked /\ coordsTilePixel = v)
            ~> (cancelled \/ coordsTilePixel # v \/ ResolvedWith(v))

(* C5 as amended: the same, for a clicked value whose comma-joined form   *)
(* differs from the value held when the detection started.                *)
C5_ChangedClickEventuallyResolves ==
    \A v \in PickFour :
        (Pending /\ clicked /\ coordsTilePixel = v
                 /\ RefJoinedDiffers(v, detection.initialCoords))
            ~> (cancelled \/ coordsTilePixel # v \/ ResolvedWith(v))

C5_Witness ==
    /\ detection.initialCoords = PickA
    /\ clicked
    /\ coordsTilePixel = PickB
    /\ ~cancelled
    /\ detection.hasDetected
    /\ callbackArgs = <<PickB>>

(* C6: once the returned cleanup has been called or an Escape keydown     *)
(* handled, the callback is never invoked again whatever is written or    *)
(* polled, the indicator is removed, the keydown listener unregistered,   *)
(* the timer cleared, and a further cleanup changes nothing.              *)
C6_CancellationIsFinal ==
    /\ [](cancelled => /\ ~detection.indicator
                       /\ ~detection.keydownListener
                       /\ ~detection.checkInterval)
    /\ [][cancelled => /\ callbackArgs' = callbackArgs
                       /\ detection' = detection
                       /\ cancelled']_vars

C6_Witness ==
    /\ cancelled
    /\ clicked
    /\ coordsTilePixel = PickB
    /\ detection.initialCoords = PickA
    /\ ~detection.hasDetected
    /\ callbackArgs = <<>>
    /\ ~detection.indicator

(* C7: the callback is invoked at most once, with a 4-element value whose *)
(* comma-joined form differs from the value held at the start, and after  *)
(* the invocation the detection is ended: polling stopped, indicator      *)
(* removed, key listener removed.                                         *)
C7_ResolvesOnceAndEnds ==
    /\ Len(callbackArgs) <= 1
    /\ Len(callbackArgs) = 1 =>
          /\ callbackArgs[1].type = "array"
          /\ Len(callbackArgs[1].elems) = 4
          /\ RefJoinedDiffers(callbackArgs[1], detection.initialCoords)
          /\ ~detection.checkInterval
          /\ ~detection.indicator
          /\ ~detection.keydownListener

====
